---- MODULE Spec2Model ----
(***************************************************************************)
(* Model of the AK backend storage engine (src/ak_backend_api.py): the     *)
(* profile store (name list, encrypted contents, plaintext contents), the  *)
(* KEY=BASE64(VALUE) contents codec, the gpg backend and the HTTP handlers  *)
(* that drive them.                                                         *)
(*                                                                         *)
(* A Python str is a sequence of code points, a bytes object a sequence of  *)
(* numbers 0..255, a dict a function whose DOMAIN is its key set, and the   *)
(* profiles directory a function from file names (str) to file contents.    *)
(***************************************************************************)
EXTENDS Integers, Sequences, FiniteSets, TLC

\* ------------------------------------------------------------------ bounds
\* Requests served over the life of the store.
MaxReq == 2
\* Process restarts (each start re-reads the environment).
MaxRestarts == 1

\* --------------------------------------------------------- str primitives
\* str.isspace() for the code points below U+0800.
IsSpace(c) == c \in {9, 10, 11, 12, 13, 28, 29, 30, 31, 32, 133, 160}

SetMin(S) == CHOOSE x \in S : \A y \in S : x <= y
SetMax(S) == CHOOSE x \in S : \A y \in S : x >= y

\* str.strip(): leading and trailing whitespace removed.
Strip(s) ==
    LET keep == {i \in 1..Len(s) : ~IsSpace(s[i])}
    IN  IF keep = {} THEN <<>> ELSE SubSeq(s, SetMin(keep), SetMax(keep))

\* str.startswith / str.endswith
StartsWith(s, pre) == Len(s) >= Len(pre) /\ SubSeq(s, 1, Len(pre)) = pre
EndsWith(s, suf) ==
    Len(s) >= Len(suf) /\ SubSeq(s, Len(s) - Len(suf) + 1, Len(s)) = suf

\* s.split(sep) for a one-character separator: "" splits to [""].
RECURSIVE Split(_, _)
Split(s, sep) ==
    LET hits == {i \in 1..Len(s) : s[i] = sep}
    IN  IF hits = {} THEN <<s>>
        ELSE LET i == SetMin(hits)
             IN  <<SubSeq(s, 1, i - 1)>> \o Split(SubSeq(s, i + 1, Len(s)), sep)

\* s.split(sep, 1) of a string that holds sep: (head, rest after the first sep).
SplitFirst(s, sep) ==
    LET i == SetMin({j \in 1..Len(s) : s[j] = sep})
    IN  <<SubSeq(s, 1, i - 1), SubSeq(s, i + 1, Len(s))>>

\* Python's order on str: lexicographic by code point.
StrLess(a, b) ==
    \E i \in 1..(Len(a) + 1) :
        /\ i <= Len(b)
        /\ \A j \in 1..(i - 1) : a[j] = b[j]
        /\ (i = Len(a) + 1 \/ a[i] < b[i])

\* sorted(S) of a set of str.
RECURSIVE SortedSeq(_)
SortedSeq(S) ==
    IF S = {} THEN <<>>
    ELSE LET m == CHOOSE x \in S : \A y \in S \ {x} : StrLess(x, y)
         IN  <<m>> \o SortedSeq(S \ {m})

SeqToSet(q) == {q[i] : i \in 1..Len(q)}

RECURSIVE Concat(_)
Concat(qq) == IF qq = <<>> THEN <<>> ELSE Head(qq) \o Concat(Tail(qq))

\* ------------------------------------------------------------ UTF-8, base64
\* str.encode("utf-8") of one code point (the model's code points are below
\* U+0800: one or two bytes).
Utf8Char(c) ==
    IF c < 128 THEN <<c>> ELSE <<192 + (c \div 64), 128 + (c % 64)>>

utf8_encode(s) == Concat([i \in 1..Len(s) |-> Utf8Char(s[i])])

IsCont(b) == b >= 128 /\ b <= 191

\* bytes.decode("utf-8"): [ok, str]; ok is FALSE where Python raises
\* UnicodeDecodeError.
RECURSIVE utf8_decode(_)
utf8_decode(bs) ==
    IF bs = <<>> THEN [ok |-> TRUE, str |-> <<>>]
    ELSE
      LET b == bs[1]
          n == IF b < 128 THEN 1
               ELSE IF b >= 194 /\ b <= 223 THEN 2
               ELSE IF b >= 224 /\ b <= 239 THEN 3
               ELSE IF b >= 240 /\ b <= 244 THEN 4
               ELSE 0
          wellformed ==
               /\ n > 0
               /\ Len(bs) >= n
               /\ \A i \in 2..n : IsCont(bs[i])
               /\ (b = 224 => bs[2] >= 160)
               /\ (b = 237 => bs[2] <= 159)
               /\ (b = 240 => bs[2] >= 144)
               /\ (b = 244 => bs[2] <= 143)
          cp == IF n = 1 THEN b
                ELSE IF n = 2 THEN (b - 192) * 64 + (bs[2] - 128)
                ELSE IF n = 3 THEN
                    (b - 224) * 4096 + (bs[2] - 128) * 64 + (bs[3] - 128)
                ELSE (b - 240) * 262144 + (bs[2] - 128) * 4096
                     + (bs[3] - 128) * 64 + (bs[4] - 128)
      IN  IF ~wellformed THEN [ok |-> FALSE, str |-> <<>>]
          ELSE LET rest == utf8_decode(SubSeq(bs, n + 1, Len(bs)))
               IN  [ok |-> rest.ok,
                    str |-> IF rest.ok THEN <<cp>> \o rest.str ELSE <<>>]

\* The base64 alphabet: index 0..63 to its ASCII code.
B64Char(i) ==
    IF i < 26 THEN 65 + i
    ELSE IF i < 52 THEN 97 + (i - 26)
    ELSE IF i < 62 THEN 48 + (i - 52)
    ELSE IF i = 62 THEN 43 ELSE 47

\* ASCII code to its index, 64 for a character outside the alphabet.
B64Index(c) ==
    IF c >= 65 /\ c <= 90 THEN c - 65
    ELSE IF c >= 97 /\ c <= 122 THEN c - 97 + 26
    ELSE IF c >= 48 /\ c <= 57 THEN c - 48 + 52
    ELSE IF c = 43 THEN 62
    ELSE IF c = 47 THEN 63 ELSE 64

\* base64.b64encode(bs).decode("ascii")
RECURSIVE b64encode(_)
b64encode(bs) ==
    IF bs = <<>> THEN <<>>
    ELSE IF Len(bs) = 1 THEN
        <<B64Char(bs[1] \div 4), B64Char((bs[1] % 4) * 16), 61, 61>>
    ELSE IF Len(bs) = 2 THEN
        <<B64Char(bs[1] \div 4),
          B64Char((bs[1] % 4) * 16 + (bs[2] \div 16)),
          B64Char((bs[2] % 16) * 4), 61>>
    ELSE
        <<B64Char(bs[1] \div 4),
          B64Char((bs[1] % 4) * 16 + (bs[2] \div 16)),
          B64Char((bs[2] % 16) * 4 + (bs[3] \div 64)),
          B64Char(bs[3] % 64)>> \o b64encode(SubSeq(bs, 4, Len(bs)))

\* binascii.a2b_base64 in its default (non-strict) mode, as a scan over the
\* input: st = [quad, left, pads, out, done].
RECURSIVE A2bScan(_, _)
A2bScan(s, st) ==
    IF s = <<>> \/ st.done THEN st
    ELSE
      LET c == s[1]
          v == B64Index(c)
          nx ==
            IF c = 61 THEN
                IF st.quad >= 2 /\ st.quad + st.pads + 1 >= 4
                THEN [st EXCEPT !.done = TRUE]
                ELSE IF st.quad >= 2 THEN [st EXCEPT !.pads = @ + 1] ELSE st
            ELSE IF v >= 64 THEN st
            ELSE IF st.quad = 0 THEN
                [st EXCEPT !.pads = 0, !.quad = 1, !.left = v]
            ELSE IF st.quad = 1 THEN
                [st EXCEPT !.pads = 0, !.quad = 2, !.left = v % 16,
                           !.out = @ \o <<st.left * 4 + (v \div 16)>>]
            ELSE IF st.quad = 2 THEN
                [st EXCEPT !.pads = 0, !.quad = 3, !.left = v % 4,
                           !.out = @ \o <<st.left * 16 + (v \div 4)>>]
            ELSE
                [st EXCEPT !.pads = 0, !.quad = 0, !.left = 0,
                           !.out = @ \o <<st.left * 64 + v>>]
      IN  A2bScan(Tail(s), nx)

\* base64.b64decode(s) of a str: [ok, bytes]; ok is FALSE where Python raises
\* (a non-ASCII character in s, or binascii.Error for a truncated group).
b64decode(s) ==
    IF \E i \in 1..Len(s) : s[i] >= 128 THEN [ok |-> FALSE, bytes |-> <<>>]
    ELSE LET st == A2bScan(s, [quad |-> 0, left |-> 0, pads |-> 0,
                               out |-> <<>>, done |-> FALSE])
         IN  IF st.done \/ st.quad = 0
             THEN [ok |-> TRUE, bytes |-> st.out]
             ELSE [ok |-> FALSE, bytes |-> <<>>]

\* --------------------------------------------------------------- universe
\* "default"
DefaultName == <<100, 101, 102, 97, 117, 108, 116>>
\* "w", a second profile name
WorkName == <<119>>
ProfileNames == {DefaultName, WorkName}

\* ".profile", ".keys.gpg", ".keys"
ExtProfile == <<46, 112, 114, 111, 102, 105, 108, 101>>
ExtKeysGpg == <<46, 107, 101, 121, 115, 46, 103, 112, 103>>
ExtKeys == <<46, 107, 101, 121, 115>>

\* Key names a request can carry: "A" and "#A".
KeyNames == {<<65>>, <<35, 65>>}

\* A JSON value of a request body: a string, or something that is no string
\* (a number, null).
Str(s) == [kind |-> "str", str |-> s]
NonStr == [kind |-> "num", str |-> <<>>]
NoValue == [kind |-> "none", str |-> <<>>]
\* The string values a request can carry: "v" and "".
StrValues == {Str(<<118>>), Str(<<>>)}

\* The passphrase typed at gpg's prompt when AK_PASSPHRASE is not set.
TtyPassphrase == "tty"
\* os.getenv("AK_PASSPHRASE", ""): unset, or one preset passphrase.
Passphrases == {"", "s3cret"}

\* AKConfig(): the capability flags read once per process start.
AKConfig(gpg_available, force_plain, preset_passphrase) ==
    [gpg_available |-> gpg_available, force_plain |-> force_plain,
     preset_passphrase |-> preset_passphrase]
\* The environments a process is started in: no gpg, AK_DISABLE_GPG set, gpg
\* with a prompt, gpg with AK_PASSPHRASE.
Configs ==
    {AKConfig(FALSE, FALSE, ""), AKConfig(TRUE, TRUE, "s3cret"),
     AKConfig(TRUE, FALSE, ""), AKConfig(TRUE, FALSE, "s3cret")}

EmptyDict == [k \in {} |-> NoValue]
Put(d, k, v) == [x \in DOMAIN d \cup {k} |-> IF x = k THEN v ELSE d[x]]
Del(d, k) == [x \in DOMAIN d \ {k} |-> d[x]]

\* The profiles directory with file `path` holding `content`.
WriteFile(fs, path, content) ==
    [f \in DOMAIN fs \cup {path} |-> IF f = path THEN content ELSE fs[f]]
\* if os.path.exists(path): os.unlink(path)
Unlink(fs, path) == [f \in DOMAIN fs \ {path} |-> fs[f]]

\* Text read with universal newlines (open(path, "r"), subprocess text=True):
\* "\r\n" and "\r" arrive as "\n".
RECURSIVE Universal(_)
Universal(t) ==
    IF t = <<>> THEN <<>>
    ELSE IF t[1] = 13 THEN
        IF Len(t) >= 2 /\ t[2] = 10 THEN <<10>> \o Universal(SubSeq(t, 3, Len(t)))
        ELSE <<10>> \o Universal(Tail(t))
    ELSE <<t[1]>> \o Universal(Tail(t))

\* ------------------------------------------------------------- AKStorage
\* Variant: one plaintext contents file for all profiles.
profile_keys_plain_path_shared(name) == <<46, 107, 101, 121, 115>>

profile_path(name) == name \o ExtProfile
profile_keys_path(name) == name \o ExtKeysGpg
profile_keys_plain_path(name) == name \o ExtKeys

\* list_profiles(): the names of the *.profile files, sorted.
list_profiles(fs) ==
    SortedSeq({SubSeq(f, 1, Len(f) - 8) :
                  f \in {g \in DOMAIN fs : EndsWith(g, ExtProfile)}})

\* read_profile(name): the stripped non-blank lines of the name list.
read_profile(fs, name) ==
    IF profile_path(name) \notin DOMAIN fs THEN <<>>
    ELSE LET lines == Split(Universal(fs[profile_path(name)]), 10)
             stripped == [i \in 1..Len(lines) |-> Strip(lines[i])]
         IN  SelectSeq(stripped, LAMBDA l : l # <<>>)

\* write_profile(name, keys): sorted(set(keys)), one per line; the file is
\* replaced.
write_profile(fs, name, keys) ==
    LET unique_keys == SortedSeq(SeqToSet(keys))
    IN  WriteFile(fs, profile_path(name),
                  Concat([i \in 1..Len(unique_keys) |-> unique_keys[i] \o <<10>>]))

\* The passphrase gpg works with in this process.
Passphrase(cfg) ==
    IF cfg.preset_passphrase # "" THEN cfg.preset_passphrase ELSE TtyPassphrase

GpgUsable(cfg) == cfg.gpg_available /\ ~cfg.force_plain

\* decrypt_gpg_data(file_path): [some, str]; some = FALSE is None. gpg exits 0
\* iff the artifact was encrypted under the passphrase it is given.
decrypt_gpg_data(fs, cfg, file_path) ==
    IF ~GpgUsable(cfg) THEN [some |-> FALSE, str |-> <<>>]
    ELSE IF fs[file_path].pw = Passphrase(cfg)
         THEN [some |-> TRUE, str |-> Universal(fs[file_path].ct)]
         ELSE [some |-> FALSE, str |-> <<>>]

\* encrypt_gpg_data(data, file_path): [ok, fs]; the artifact is overwritten
\* when gpg runs.
encrypt_gpg_data(fs, cfg, data, file_path) ==
    IF ~GpgUsable(cfg) THEN [ok |-> FALSE, fs |-> fs]
    ELSE [ok |-> TRUE,
          fs |-> WriteFile(fs, file_path, [ct |-> data, pw |-> Passphrase(cfg)])]

\* Variant: the try block wraps the whole loop, so the first line whose value
\* fails to decode ends the parse; [keys, aborted].
RECURSIVE ParseLinesScan(_)
ParseLinesScan(lines) ==
    IF lines = <<>> THEN [keys |-> EmptyDict, aborted |-> FALSE]
    ELSE
      LET before == ParseLinesScan(SubSeq(lines, 1, Len(lines) - 1))
          line == Strip(lines[Len(lines)])
      IN  IF before.aborted \/ line = <<>> \/ StartsWith(line, <<35>>) THEN before
          ELSE IF \E i \in 1..Len(line) : line[i] = 61 THEN
              LET kv == SplitFirst(line, 61)
                  raw == b64decode(kv[2])
                  value == utf8_decode(raw.bytes)
              IN  IF raw.ok /\ value.ok
                  THEN [before EXCEPT !.keys = Put(@, kv[1], Str(value.str))]
                  ELSE [before EXCEPT !.aborted = TRUE]
          ELSE before
ParseLinesAbort(lines) == ParseLinesScan(lines).keys

\* The parse loop of load_profile_keys over the split lines.
RECURSIVE ParseLines(_)
ParseLines(lines) ==
    IF lines = <<>> THEN EmptyDict
    ELSE
      LET keys == ParseLines(SubSeq(lines, 1, Len(lines) - 1))
          line == Strip(lines[Len(lines)])
      IN  IF line = <<>> \/ StartsWith(line, <<35>>) THEN keys
          ELSE IF \E i \in 1..Len(line) : line[i] = 61 THEN
              LET kv == SplitFirst(line, 61)
                  raw == b64decode(kv[2])
                  value == utf8_decode(raw.bytes)
              IN  IF raw.ok /\ value.ok THEN Put(keys, kv[1], Str(value.str))
                  ELSE keys
          ELSE keys

\* The text load_profile_keys parses: the decrypted artifact, and the plaintext
\* file when that gave nothing (`not data`: None or "").
LoadedText(fs, cfg, name) ==
    LET dec == IF profile_keys_path(name) \in DOMAIN fs
               THEN decrypt_gpg_data(fs, cfg, profile_keys_path(name))
               ELSE [some |-> FALSE, str |-> <<>>]
        nodata == ~dec.some \/ dec.str = <<>>
    IN  IF nodata /\ profile_keys_plain_path(name) \in DOMAIN fs
        THEN Universal(fs[profile_keys_plain_path(name)])
        ELSE IF dec.some THEN dec.str ELSE <<>>

\* The tail of load_profile_keys: the mapping parsed from the text obtained.
DecodeContents(data) ==
    IF data = <<>> THEN EmptyDict ELSE ParseLines(Split(Strip(data), 10))

\* load_profile_keys(name)
load_profile_keys(fs, cfg, name) == DecodeContents(LoadedText(fs, cfg, name))

\* The KEY=base64 text save_profile_keys builds (all values are str).
EncodeContents(keys) ==
    LET ks == SortedSeq(DOMAIN keys)
    IN  Concat([i \in 1..Len(ks) |->
            ks[i] \o <<61>> \o b64encode(utf8_encode(keys[ks[i]].str)) \o <<10>>])

\* save_profile_keys(name, keys): [ok, fs]. value.encode raises for a value
\* that is no str, before anything is written.
save_profile_keys(fs, cfg, name, keys) ==
    IF \E k \in DOMAIN keys : keys[k].kind # "str" THEN [ok |-> FALSE, fs |-> fs]
    ELSE
      LET data == EncodeContents(keys)
          enc == encrypt_gpg_data(fs, cfg, data, profile_keys_path(name))
      IN  IF enc.ok THEN [ok |-> TRUE, fs |-> enc.fs]
          ELSE [ok |-> TRUE,
                fs |-> WriteFile(fs, profile_keys_plain_path(name), data)]

\* ---------------------------------------------- the engine in a failing world
\* What goes wrong during one call: f.write into the plaintext temp file
\* raises, f.write into the passphrase file raises, gpg exits 0 ("ok"), exits
\* non-zero ("exit") or runs into the timeout ("timeout"), f.write into the
\* plaintext contents file raises.
Fault(tmp_write, pass_write, gpg, plain_write) ==
    [tmp_write |-> tmp_write, pass_write |-> pass_write, gpg |-> gpg,
     plain_write |-> plain_write]
NoFault == Fault(FALSE, FALSE, "ok", FALSE)
Faults ==
    {NoFault,
     Fault(TRUE, FALSE, "ok", FALSE), Fault(FALSE, TRUE, "ok", FALSE),
     Fault(FALSE, FALSE, "exit", FALSE), Fault(FALSE, FALSE, "timeout", FALSE),
     Fault(FALSE, FALSE, "ok", TRUE), Fault(TRUE, FALSE, "ok", TRUE)}

\* tempfile.NamedTemporaryFile(delete=False): the file made by call `id` at
\* step `step`.
TempFile(id, step) == <<id, step>>

\* decrypt_gpg_data(file_path) under a fault: [some, str, left]; left holds
\* the transient files still there when the call returns. The passphrase file
\* is created before its f.write and unlinked only by the finally of the try
\* entered after it.
decrypt_gpg_data_env(fs, cfg, file_path, fault, id) ==
    IF ~GpgUsable(cfg) THEN [some |-> FALSE, str |-> <<>>, left |-> {}]
    ELSE IF cfg.preset_passphrase # "" /\ fault.pass_write
    THEN [some |-> FALSE, str |-> <<>>,
          left |-> {TempFile(id, "decrypt.pass")}]
    ELSE IF fault.gpg # "ok" THEN [some |-> FALSE, str |-> <<>>, left |-> {}]
    ELSE IF fs[file_path].pw = Passphrase(cfg)
    THEN [some |-> TRUE, str |-> Universal(fs[file_path].ct), left |-> {}]
    ELSE [some |-> FALSE, str |-> <<>>, left |-> {}]

\* encrypt_gpg_data(data, file_path) under a fault: [ok, fs, left]. The
\* plaintext temp file is created before its f.write and unlinked only by the
\* finally of the try entered after it; likewise the passphrase file. A gpg
\* that fails is taken to leave the output file as it was.
encrypt_gpg_data_env(fs, cfg, data, file_path, fault, id) ==
    IF ~GpgUsable(cfg) THEN [ok |-> FALSE, fs |-> fs, left |-> {}]
    ELSE IF fault.tmp_write
    THEN [ok |-> FALSE, fs |-> fs, left |-> {TempFile(id, "encrypt.tmp")}]
    ELSE IF cfg.preset_passphrase # "" /\ fault.pass_write
    THEN [ok |-> FALSE, fs |-> fs, left |-> {TempFile(id, "encrypt.pass")}]
    ELSE IF fault.gpg # "ok" THEN [ok |-> FALSE, fs |-> fs, left |-> {}]
    ELSE [ok |-> TRUE,
          fs |-> WriteFile(fs, file_path, [ct |-> data, pw |-> Passphrase(cfg)]),
          left |-> {}]

\* Variant: an encrypted save removes the plaintext file it supersedes.
save_profile_keys_env_cleanup(fs, cfg, name, keys, fault, id) ==
    IF \E k \in DOMAIN keys : keys[k].kind # "str"
    THEN [ok |-> FALSE, fs |-> fs, left |-> {}]
    ELSE
      LET data == EncodeContents(keys)
          enc == encrypt_gpg_data_env(fs, cfg, data, profile_keys_path(name),
                                      fault, id)
      IN  IF enc.ok
          THEN [ok |-> TRUE,
                fs |-> Unlink(enc.fs, profile_keys_plain_path(name)),
                left |-> enc.left]
          ELSE IF fault.plain_write
          THEN [ok |-> FALSE,
                fs |-> WriteFile(fs, profile_keys_plain_path(name), <<>>),
                left |-> enc.left]
          ELSE [ok |-> TRUE,
                fs |-> WriteFile(fs, profile_keys_plain_path(name), data),
                left |-> enc.left]

\* save_profile_keys(name, keys) under a fault: [ok, fs, left]. open(path, "w")
\* has emptied the plaintext file when its f.write raises.
save_profile_keys_env(fs, cfg, name, keys, fault, id) ==
    IF \E k \in DOMAIN keys : keys[k].kind # "str"
    THEN [ok |-> FALSE, fs |-> fs, left |-> {}]
    ELSE
      LET data == EncodeContents(keys)
          enc == encrypt_gpg_data_env(fs, cfg, data, profile_keys_path(name),
                                      fault, id)
      IN  IF enc.ok THEN [ok |-> TRUE, fs |-> enc.fs, left |-> enc.left]
          ELSE IF fault.plain_write
          THEN [ok |-> FALSE,
                fs |-> WriteFile(fs, profile_keys_plain_path(name), <<>>),
                left |-> enc.left]
          ELSE [ok |-> TRUE,
                fs |-> WriteFile(fs, profile_keys_plain_path(name), data),
                left |-> enc.left]

\* Variant: the name list of "default" is never written.
ensure_default_profile_skip(fs) == fs

\* Variant: the empty name list is written without looking at list_profiles().
ensure_default_profile_always(fs) == write_profile(fs, DefaultName, <<>>)

\* ensure_default_profile()
ensure_default_profile(fs) ==
    IF DefaultName \notin SeqToSet(list_profiles(fs))
    THEN write_profile(fs, DefaultName, <<>>)
    ELSE fs

\* ------------------------------------------------------------------ state
VARIABLES
    files,      \* the profiles directory: file name -> contents
    config,     \* the AKConfig of the running process
    last,       \* the last call: what was asked and the status returned
    nreq,       \* calls made so far
    nstarts,    \* process restarts so far
    codec,      \* the codec run of the codec specification
    tmpfiles,   \* the transient files left in the temp directory
    workers     \* the requests in progress in the threaded server

vars == <<files, config, last, nreq, nstarts, codec, tmpfiles, workers>>

EmptyDir == [f \in {} |-> <<>>]
NoName == <<>>
\* A call as recorded: status is the HTTP status of a request, and 1 (True) or
\* 0 (False) for a direct call of a storage method; keys is the argument of a
\* direct save_profile_keys or write_profile call.
Call(op, profile, key, value, keys, status) ==
    [op |-> op, profile |-> profile, key |-> key, value |-> value,
     keys |-> keys, status |-> status]
CodecIdle == [stage |-> "idle", m |-> EmptyDict, text |-> <<>>, out |-> EmptyDict]
\* No request is in progress.
NoWorkers == [w \in {} |-> NoName]

\* The first process start on an empty profiles directory:
\* config = AKConfig(); storage.ensure_default_profile().
Init ==
    /\ files = ensure_default_profile(EmptyDir)
    /\ config \in Configs
    /\ last = Call("start", NoName, NoName, NoValue, <<>>, 200)
    /\ nreq = 0
    /\ nstarts = 0
    /\ codec = CodecIdle
    /\ tmpfiles = {}
    /\ workers = NoWorkers

\* ------------------------------------------------------- process start-up
\* A later start of the process on the directory as it is:
\* config = AKConfig(); storage.ensure_default_profile(); app.run(...)
Start(cfg) ==
    /\ nstarts < MaxRestarts
    /\ nstarts' = nstarts + 1
    /\ config' = cfg
    /\ files' = ensure_default_profile(files)
    /\ last' = Call("start", NoName, NoName, NoValue, <<>>, 200)
    /\ UNCHANGED <<nreq, codec, tmpfiles, workers>>

\* ------------------------------------------------------------ HTTP handlers
\* What a handler leaves: the directory and the status of the response.
Served(op, profile, key, value, fs, status) ==
    /\ nreq' = nreq + 1
    /\ files' = fs
    /\ last' = Call(op, profile, key, value, <<>>, status)
    /\ UNCHANGED <<config, nstarts, codec, tmpfiles, workers>>

\* The name list after add_profile_key saved the contents.
AddToNameList(fs, profile_name, key_name) ==
    LET profile_keys == read_profile(fs, profile_name)
    IN  IF key_name \notin SeqToSet(profile_keys)
        THEN write_profile(fs, profile_name, Append(profile_keys, key_name))
        ELSE fs

\* POST /api/profiles/<profile_name>/keys; complete = FALSE is a body without
\* "name" or "value".
add_profile_key(profile_name, complete, key_name, key_value) ==
    IF ~complete
    THEN Served("add_key", profile_name, NoName, NoValue, files, 400)
    ELSE
      LET keys == Put(load_profile_keys(files, config, profile_name),
                      key_name, key_value)
          saved == save_profile_keys(files, config, profile_name, keys)
      IN  IF saved.ok
          THEN Served("add_key", profile_name, key_name, key_value,
                      AddToNameList(saved.fs, profile_name, key_name), 200)
          ELSE Served("add_key", profile_name, key_name, key_value, saved.fs, 500)

\* Variant: the key is also put on the name list, as add_profile_key does.
update_profile_key_listed(profile_name, key_name, complete, key_value) ==
    IF ~complete
    THEN Served("update_key", profile_name, key_name, NoValue, files, 400)
    ELSE
      LET keys == Put(load_profile_keys(files, config, profile_name),
                      key_name, key_value)
          saved == save_profile_keys(files, config, profile_name, keys)
      IN  IF saved.ok
          THEN Served("update_key", profile_name, key_name, key_value,
                      AddToNameList(saved.fs, profile_name, key_name), 200)
          ELSE Served("update_key", profile_name, key_name, key_value,
                      saved.fs, 500)

\* PUT /api/profiles/<profile_name>/keys/<key_name>
update_profile_key(profile_name, key_name, complete, key_value) ==
    IF ~complete
    THEN Served("update_key", profile_name, key_name, NoValue, files, 400)
    ELSE
      LET keys == Put(load_profile_keys(files, config, profile_name),
                      key_name, key_value)
          saved == save_profile_keys(files, config, profile_name, keys)
      IN  Served("update_key", profile_name, key_name, key_value, saved.fs,
                 IF saved.ok THEN 200 ELSE 500)

\* list.remove(x): the first occurrence goes.
RemoveFirst(q, x) ==
    LET i == SetMin({j \in 1..Len(q) : q[j] = x})
    IN  SubSeq(q, 1, i - 1) \o SubSeq(q, i + 1, Len(q))

\* The name list after delete_profile_key saved the contents.
RemoveFromNameList(fs, profile_name, key_name) ==
    LET profile_keys == read_profile(fs, profile_name)
    IN  IF key_name \in SeqToSet(profile_keys)
        THEN write_profile(fs, profile_name, RemoveFirst(profile_keys, key_name))
        ELSE fs

\* Variant: the key is removed and the contents saved whether or not the key
\* was there.
delete_profile_key_nocheck(profile_name, key_name) ==
    LET keys == load_profile_keys(files, config, profile_name)
        saved == save_profile_keys(files, config, profile_name,
                                   Del(keys, key_name))
    IN  Served("delete_key", profile_name, key_name, NoValue,
               RemoveFromNameList(saved.fs, profile_name, key_name),
               IF saved.ok THEN 200 ELSE 500)

\* DELETE /api/profiles/<profile_name>/keys/<key_name>
delete_profile_key(profile_name, key_name) ==
    LET keys == load_profile_keys(files, config, profile_name)
    IN  IF key_name \in DOMAIN keys
        THEN LET saved == save_profile_keys(files, config, profile_name,
                                            Del(keys, key_name))
             IN  IF saved.ok
                 THEN Served("delete_key", profile_name, key_name, NoValue,
                             RemoveFromNameList(saved.fs, profile_name, key_name),
                             200)
                 ELSE Served("delete_key", profile_name, key_name, NoValue,
                             saved.fs, 500)
        ELSE Served("delete_key", profile_name, key_name, NoValue, files, 404)

\* Variant: no look at list_profiles(); the empty name list is always written.
create_profile_noexists(complete, profile_name) ==
    IF ~complete
    THEN Served("create_profile", NoName, NoName, NoValue, files, 400)
    ELSE Served("create_profile", profile_name, NoName, NoValue,
                write_profile(files, profile_name, <<>>), 200)

\* POST /api/profiles; complete = FALSE is a body without "name".
create_profile(complete, profile_name) ==
    IF ~complete
    THEN Served("create_profile", NoName, NoName, NoValue, files, 400)
    ELSE IF profile_name \in SeqToSet(list_profiles(files))
    THEN Served("create_profile", profile_name, NoName, NoValue, files, 409)
    ELSE Served("create_profile", profile_name, NoName, NoValue,
                write_profile(files, profile_name, <<>>), 200)

\* The three artifacts of a profile.
Artifacts(name) ==
    {profile_path(name), profile_keys_path(name), profile_keys_plain_path(name)}

\* Variant: the loop runs over the name list and the encrypted contents only.
UnlinkArtifacts_nokeys(fs, name) ==
    Unlink(Unlink(fs, profile_path(name)), profile_keys_path(name))

\* The loop of delete_profile over the three paths.
UnlinkArtifacts(fs, name) ==
    Unlink(Unlink(Unlink(fs, profile_path(name)), profile_keys_path(name)),
           profile_keys_plain_path(name))

\* Variant: no guard on the name "default".
delete_profile_unguarded(profile_name) ==
    Served("delete_profile", profile_name, NoName, NoValue,
           UnlinkArtifacts(files, profile_name), 200)

\* DELETE /api/profiles/<profile_name>
delete_profile(profile_name) ==
    IF profile_name = DefaultName
    THEN Served("delete_profile", profile_name, NoName, NoValue, files, 400)
    ELSE Served("delete_profile", profile_name, NoName, NoValue,
                UnlinkArtifacts(files, profile_name), 200)

\* GET /api/profiles/<profile_name>/keys: reads only.
get_profile_keys(profile_name) ==
    Served("get_keys", profile_name, NoName, NoValue, files, 200)

Restart == \E cfg \in Configs : Start(cfg)
AddKey ==
    /\ nreq < MaxReq
    /\ \E p \in ProfileNames, c \in BOOLEAN, k \in KeyNames,
          v \in StrValues \cup {NonStr} :
        /\ (~c => p = DefaultName /\ k = <<65>> /\ v = NonStr)
        /\ add_profile_key(p, c, k, v)
UpdateKey ==
    /\ nreq < MaxReq
    /\ \E p \in ProfileNames, k \in KeyNames, c \in BOOLEAN,
          v \in StrValues \cup {NonStr} :
        /\ (~c => p = DefaultName /\ k = <<65>> /\ v = NonStr)
        /\ update_profile_key(p, k, c, v)
DeleteKey ==
    /\ nreq < MaxReq
    /\ \E p \in ProfileNames, k \in KeyNames : delete_profile_key(p, k)
CreateProfile ==
    /\ nreq < MaxReq
    /\ \E c \in BOOLEAN, p \in ProfileNames :
        /\ (~c => p = DefaultName)
        /\ create_profile(c, p)
DeleteProfile ==
    /\ nreq < MaxReq
    /\ \E p \in ProfileNames : delete_profile(p)
GetProfileKeys ==
    /\ nreq < MaxReq
    /\ \E p \in ProfileNames : get_profile_keys(p)

Next ==
    \/ Restart
    \/ AddKey
    \/ UpdateKey
    \/ DeleteKey
    \/ CreateProfile
    \/ DeleteProfile
    \/ GetProfileKeys

Spec == Init /\ [][Next]_vars

\* ------------------------------------------------ a store without encryption
\* The server started in environments where gpg is missing or AK_DISABLE_GPG
\* is set, every time.
InitPlain ==
    /\ Init
    /\ ~GpgUsable(config)

RestartPlain ==
    \E cfg \in Configs :
        /\ ~GpgUsable(cfg)
        /\ Start(cfg)

NextPlain ==
    \/ RestartPlain
    \/ AddKey
    \/ UpdateKey
    \/ DeleteKey
    \/ CreateProfile
    \/ DeleteProfile
    \/ GetProfileKeys

SpecPlain == InitPlain /\ [][NextPlain]_vars

\* ------------------------------------------- the storage engine called directly
\* The mappings (Dict[str, str]) and key lists a caller of AKStorage can pass.
Mappings ==
    UNION {[ks -> StrValues] : ks \in SUBSET KeyNames}
KeyLists ==
    {<<>>} \cup {<<k>> : k \in KeyNames}
           \cup {<<k1, k2>> : k1 \in KeyNames, k2 \in KeyNames}

\* A process that imported the module on an empty profiles directory:
\* config = AKConfig(); storage = AKStorage(config).
InitEngine ==
    /\ files = EmptyDir
    /\ config \in Configs
    /\ last = Call("import", NoName, NoName, NoValue, <<>>, 1)
    /\ nreq = 0
    /\ nstarts = 0
    /\ codec = CodecIdle
    /\ tmpfiles = {}
    /\ workers = NoWorkers

Called(op, profile, keys, fs, ok) ==
    /\ nreq < MaxReq
    /\ nreq' = nreq + 1
    /\ files' = fs
    /\ last' = Call(op, profile, NoName, NoValue, keys, IF ok THEN 1 ELSE 0)
    /\ UNCHANGED <<config, nstarts, codec, tmpfiles, workers>>

\* storage.save_profile_keys(name, keys)
CallSaveKeys ==
    \E name \in ProfileNames, keys \in Mappings :
        LET saved == save_profile_keys(files, config, name, keys)
        IN  Called("save_keys", name, keys, saved.fs, saved.ok)

\* storage.write_profile(name, keys)
CallWriteProfile ==
    \E name \in ProfileNames, keys \in KeyLists :
        Called("write_profile", name, keys, write_profile(files, name, keys), TRUE)

\* storage.ensure_default_profile()
CallEnsureDefault ==
    Called("ensure_default", DefaultName, <<>>, ensure_default_profile(files), TRUE)

\* The module imported by a new process in another environment.
Reimport ==
    /\ nstarts < MaxRestarts
    /\ nstarts' = nstarts + 1
    /\ \E cfg \in Configs : config' = cfg
    /\ last' = Call("import", NoName, NoName, NoValue, <<>>, 1)
    /\ UNCHANGED <<files, nreq, codec, tmpfiles, workers>>

NextEngine ==
    \/ CallSaveKeys
    \/ CallWriteProfile
    \/ CallEnsureDefault
    \/ Reimport

SpecEngine == InitEngine /\ [][NextEngine]_vars

\* ------------------------------------------------------------ the codec alone
\* Key names and values of the codec runs: "A", "B", "#A", "A=B"; "v", "", "é".
CodecKeyNames == KeyNames \cup {<<66>>, <<65, 61, 66>>}
CodecValues == StrValues \cup {Str(<<233>>)}
CodecMappings ==
    UNION {[ks -> CodecValues] : ks \in SUBSET CodecKeyNames}

InitCodec ==
    /\ files = EmptyDir
    /\ config = AKConfig(FALSE, FALSE, "")
    /\ last = Call("import", NoName, NoName, NoValue, <<>>, 1)
    /\ nreq = 0
    /\ nstarts = 0
    /\ \E m \in CodecMappings :
          codec = [stage |-> "input", m |-> m, text |-> <<>>, out |-> EmptyDict]
    /\ tmpfiles = {}
    /\ workers = NoWorkers

\* save_profile_keys, lines 297-303: the mapping to its text.
CodecEncode ==
    /\ codec.stage = "input"
    /\ codec' = [codec EXCEPT !.stage = "encoded",
                              !.text = EncodeContents(codec.m)]
    /\ UNCHANGED <<files, config, last, nreq, nstarts, tmpfiles, workers>>

\* load_profile_keys, lines 274-292: the text to its mapping.
CodecDecode ==
    /\ codec.stage = "encoded"
    /\ codec' = [codec EXCEPT !.stage = "decoded",
                              !.out = DecodeContents(codec.text)]
    /\ UNCHANGED <<files, config, last, nreq, nstarts, tmpfiles, workers>>

NextCodec ==
    \/ CodecEncode
    \/ CodecDecode

SpecCodec == InitCodec /\ [][NextCodec]_vars

\* ------------------------------------------------------- the name list alone
\* Key names of the name-list runs: "A", "B", " A" and "".
ListKeyNames == {<<65>>, <<66>>, <<32, 65>>, <<>>}
\* The key lists write_profile is called with: up to two names in any order,
\* and lists with a repeated name.
NameLists ==
    {<<>>} \cup {<<k>> : k \in ListKeyNames}
           \cup {<<k1, k2>> : k1 \in ListKeyNames, k2 \in ListKeyNames}
           \cup {<<k1, k2, k2>> : k1 \in ListKeyNames, k2 \in ListKeyNames}

\* storage.write_profile(name, keys)
CallWriteNames ==
    \E name \in ProfileNames, keys \in NameLists :
        Called("write_profile", name, keys, write_profile(files, name, keys), TRUE)

NextNames ==
    \/ CallWriteNames
    \/ CallEnsureDefault

SpecNames == InitEngine /\ [][NextNames]_vars

\* ------------------------------------------------- calls in a failing world
\* A call as recorded together with what went wrong during it.
CallEnv(op, profile, key, value, keys, status, fault) ==
    [op |-> op, profile |-> profile, key |-> key, value |-> value,
     keys |-> keys, status |-> status, fault |-> fault]

\* What a call leaves: the directory, the transient files it did not remove,
\* and the status.
Leaving(op, profile, key, value, keys, fs, left, status, fault) ==
    /\ nreq' = nreq + 1
    /\ files' = fs
    /\ tmpfiles' = tmpfiles \cup left
    /\ last' = CallEnv(op, profile, key, value, keys, status, fault)
    /\ UNCHANGED <<config, nstarts, codec, workers>>

\* Variant: the name list is brought up to date before the contents are
\* saved.
add_profile_key_env_listfirst(profile_name, key_name, key_value, fault) ==
    LET keys == Put(load_profile_keys(files, config, profile_name),
                    key_name, key_value)
        listed == AddToNameList(files, profile_name, key_name)
        saved == save_profile_keys_env(listed, config, profile_name, keys,
                                       fault, nreq + 1)
    IN  Leaving("add_key", profile_name, key_name, key_value, <<>>,
                saved.fs, saved.left, IF saved.ok THEN 200 ELSE 500, fault)

\* POST /api/profiles/<profile_name>/keys with a complete body, under a fault.
add_profile_key_env(profile_name, key_name, key_value, fault) ==
    LET keys == Put(load_profile_keys(files, config, profile_name),
                    key_name, key_value)
        saved == save_profile_keys_env(files, config, profile_name, keys,
                                       fault, nreq + 1)
    IN  IF saved.ok
        THEN Leaving("add_key", profile_name, key_name, key_value, <<>>,
                     AddToNameList(saved.fs, profile_name, key_name),
                     saved.left, 200, fault)
        ELSE Leaving("add_key", profile_name, key_name, key_value, <<>>,
                     saved.fs, saved.left, 500, fault)

\* DELETE /api/profiles/<profile_name>/keys/<key_name>, under a fault.
delete_profile_key_env(profile_name, key_name, fault) ==
    LET keys == load_profile_keys(files, config, profile_name)
    IN  IF key_name \in DOMAIN keys
        THEN LET saved == save_profile_keys_env(files, config, profile_name,
                              Del(keys, key_name), fault, nreq + 1)
             IN  IF saved.ok
                 THEN Leaving("delete_key", profile_name, key_name, NoValue, <<>>,
                              RemoveFromNameList(saved.fs, profile_name, key_name),
                              saved.left, 200, fault)
                 ELSE Leaving("delete_key", profile_name, key_name, NoValue, <<>>,
                              saved.fs, saved.left, 500, fault)
        ELSE Leaving("delete_key", profile_name, key_name, NoValue, <<>>,
                     files, {}, 404, fault)

\* The key, the values and the mappings of the calls made in a failing world:
\* "A"; "v" and a value that is no string; {} and {"A": "v"}.
EnvKey == <<65>>
EnvValues == {Str(<<118>>), NonStr}
EnvMappings == {EmptyDict, Put(EmptyDict, EnvKey, Str(<<118>>))}

AddKeyEnv ==
    /\ nreq < MaxReq
    /\ \E p \in ProfileNames, v \in EnvValues, fault \in Faults :
        add_profile_key_env(p, EnvKey, v, fault)
DeleteKeyEnv ==
    /\ nreq < MaxReq
    /\ \E p \in ProfileNames, fault \in Faults :
        delete_profile_key_env(p, EnvKey, fault)

\* storage.save_profile_keys(name, keys)
CallSaveKeysEnv ==
    /\ nreq < MaxReq
    /\ \E name \in ProfileNames, keys \in EnvMappings, fault \in Faults :
        LET saved == save_profile_keys_env(files, config, name, keys, fault,
                                           nreq + 1)
        IN  Leaving("save_keys", name, NoName, NoValue, keys, saved.fs,
                    saved.left, IF saved.ok THEN 1 ELSE 0, fault)

\* storage.encrypt_gpg_data(data, storage.profile_keys_path(name))
CallEncrypt ==
    /\ nreq < MaxReq
    /\ \E name \in ProfileNames, keys \in EnvMappings, fault \in Faults :
        LET enc == encrypt_gpg_data_env(files, config, EncodeContents(keys),
                       profile_keys_path(name), fault, nreq + 1)
        IN  Leaving("encrypt", name, NoName, NoValue, keys, enc.fs, enc.left,
                    IF enc.ok THEN 1 ELSE 0, fault)

\* storage.decrypt_gpg_data(storage.profile_keys_path(name)) of an artifact
\* that exists.
CallDecrypt ==
    /\ nreq < MaxReq
    /\ \E name \in ProfileNames, fault \in Faults :
        /\ profile_keys_path(name) \in DOMAIN files
        /\ LET dec == decrypt_gpg_data_env(files, config,
                          profile_keys_path(name), fault, nreq + 1)
           IN  Leaving("decrypt", name, NoName, NoValue, <<>>, files, dec.left,
                       IF dec.some THEN 1 ELSE 0, fault)

NextEnv ==
    \/ AddKeyEnv
    \/ DeleteKeyEnv
    \/ CallSaveKeysEnv
    \/ CallEncrypt
    \/ CallDecrypt

SpecEnv == Init /\ [][NextEnv]_vars

\* ------------------------------------------------- requests served in threads
\* app.run serves each request in a thread of its own: the storage calls of
\* two add_key requests interleave. Each storage call is one step.
WorkerIds == {1, 2}
\* The key names and the value of the concurrent requests: "A", "B"; "v".
ConcKeys == {<<65>>, <<66>>}
ConcValue == Str(<<118>>)

\* add_profile_key with a complete body served alone: [fs, status].
AddKeyAlone(fs, cfg, profile_name, key_name, key_value) ==
    LET keys == Put(load_profile_keys(fs, cfg, profile_name), key_name, key_value)
        saved == save_profile_keys(fs, cfg, profile_name, keys)
    IN  IF saved.ok
        THEN [fs |-> AddToNameList(saved.fs, profile_name, key_name),
              status |-> 200]
        ELSE [fs |-> saved.fs, status |-> 500]

\* The directories the requests arrive at: a fresh store, and one where "w"
\* already holds the key "B" with the value "".
BaseDirs(cfg) ==
    {ensure_default_profile(EmptyDir),
     AddKeyAlone(ensure_default_profile(EmptyDir), cfg, WorkName, <<66>>,
                 Str(<<>>)).fs}

\* An add_key request about to make its first storage call. alone is what the
\* request produces when it is served alone; loadedAfter counts the saves of
\* other requests made before its load, saveNo numbers the saves in the order
\* they ran.
Worker(profile_name, key_name, key_value, alone) ==
    [pc |-> "load", profile |-> profile_name, key |-> key_name,
     value |-> key_value, keys |-> EmptyDict, names |-> <<>>, status |-> 0,
     loadedAfter |-> 0, saveNo |-> 0, alone |-> alone]

InitConc ==
    /\ config \in Configs
    /\ files \in BaseDirs(config)
    /\ \E p1 \in ProfileNames, p2 \in ProfileNames,
          k1 \in ConcKeys, k2 \in ConcKeys :
        workers = (1 :> Worker(p1, k1, ConcValue,
                               AddKeyAlone(files, config, p1, k1, ConcValue))
                   @@ 2 :> Worker(p2, k2, ConcValue,
                               AddKeyAlone(files, config, p2, k2, ConcValue)))
    /\ last = Call("start", NoName, NoName, NoValue, <<>>, 200)
    /\ nreq = 0
    /\ nstarts = 0
    /\ codec = CodecIdle
    /\ tmpfiles = {}

\* Saves made so far.
SavesDone == Cardinality({w \in DOMAIN workers : workers[w].saveNo > 0})

\* keys = storage.load_profile_keys(profile_name); keys[key_name] = key_value
ConcLoad(w) ==
    /\ workers[w].pc = "load"
    /\ workers' = [workers EXCEPT
          ![w].pc = "save",
          ![w].loadedAfter = SavesDone,
          ![w].keys = Put(load_profile_keys(files, config, workers[w].profile),
                          workers[w].key, workers[w].value)]
    /\ UNCHANGED <<files, config, last, nreq, nstarts, codec, tmpfiles>>

\* Variant: the contents are loaded again when they are saved, and the key is
\* put into what is there then.
ConcSaveMerging(w) ==
    /\ workers[w].pc = "save"
    /\ LET keys == Put(load_profile_keys(files, config, workers[w].profile),
                       workers[w].key, workers[w].value)
           saved == save_profile_keys(files, config, workers[w].profile, keys)
       IN  /\ files' = saved.fs
           /\ workers' = [workers EXCEPT
                 ![w].pc = IF saved.ok THEN "readlist" ELSE "done",
                 ![w].keys = keys,
                 ![w].saveNo = SavesDone + 1,
                 ![w].status = IF saved.ok THEN 0 ELSE 500]
    /\ UNCHANGED <<config, last, nreq, nstarts, codec, tmpfiles>>

\* if storage.save_profile_keys(profile_name, keys): ... else: 500
ConcSave(w) ==
    /\ workers[w].pc = "save"
    /\ LET saved == save_profile_keys(files, config, workers[w].profile,
                                      workers[w].keys)
       IN  /\ files' = saved.fs
           /\ workers' = [workers EXCEPT
                 ![w].pc = IF saved.ok THEN "readlist" ELSE "done",
                 ![w].saveNo = SavesDone + 1,
                 ![w].status = IF saved.ok THEN 0 ELSE 500]
    /\ UNCHANGED <<config, last, nreq, nstarts, codec, tmpfiles>>

\* profile_keys = storage.read_profile(profile_name);
\* if key_name not in profile_keys: profile_keys.append(key_name)
ConcReadList(w) ==
    /\ workers[w].pc = "readlist"
    /\ LET profile_keys == read_profile(files, workers[w].profile)
       IN  workers' =
             IF workers[w].key \notin SeqToSet(profile_keys)
             THEN [workers EXCEPT
                      ![w].pc = "writelist",
                      ![w].names = Append(profile_keys, workers[w].key)]
             ELSE [workers EXCEPT ![w].pc = "done", ![w].status = 200]
    /\ UNCHANGED <<files, config, last, nreq, nstarts, codec, tmpfiles>>

\* storage.write_profile(profile_name, profile_keys); return 200
ConcWriteList(w) ==
    /\ workers[w].pc = "writelist"
    /\ files' = write_profile(files, workers[w].profile, workers[w].names)
    /\ workers' = [workers EXCEPT ![w].pc = "done", ![w].status = 200]
    /\ UNCHANGED <<config, last, nreq, nstarts, codec, tmpfiles>>

NextConc ==
    \E w \in WorkerIds :
        \/ ConcLoad(w)
        \/ ConcSave(w)
        \/ ConcReadList(w)
        \/ ConcWriteList(w)

SpecConc == InitConc /\ [][NextConc]_vars

\* ------------------------------------------------- contents text as found
\* A line of a contents file with what it stands for: valid lines carry their
\* key and value; the other lines are failing ("A=d": truncated base64,
\* "B=/w==": bytes that are not UTF-8), blank, or comments.
Line(text, kind, key, value) ==
    [text |-> text, kind |-> kind, key |-> key, value |-> value]
ContentLines ==
    {Line(<<65, 61, 100, 103, 61, 61>>, "valid", <<65>>, Str(<<118>>)),
     Line(<<66, 61>>, "valid", <<66>>, Str(<<>>)),
     Line(<<66, 61, 119, 54, 107, 61>>, "valid", <<66>>, Str(<<233>>)),
     Line(<<65, 61, 100>>, "failing", <<65>>, NoValue),
     Line(<<66, 61, 47, 119, 61, 61>>, "failing", <<66>>, NoValue),
     Line(<<>>, "blank", NoName, NoValue),
     Line(<<32, 32>>, "blank", NoName, NoValue),
     Line(<<35, 65, 61, 100, 103, 61, 61>>, "comment", NoName, NoValue)}
\* Lines of a contents file.
MaxLines == 3
LineSeqs == UNION {[1..n -> ContentLines] : n \in 0..MaxLines}

\* The file text: the lines, each ended by "\n".
FileText(lines) == Concat([i \in 1..Len(lines) |-> lines[i].text \o <<10>>])

\* The entries of the valid lines, a later line replacing an earlier one.
RECURSIVE ValidEntries(_)
ValidEntries(lines) ==
    IF lines = <<>> THEN EmptyDict
    ELSE LET before == ValidEntries(SubSeq(lines, 1, Len(lines) - 1))
             l == lines[Len(lines)]
         IN  IF l.kind = "valid" THEN Put(before, l.key, l.value) ELSE before

\* The contents of "w" as found on disk: in the encrypted artifact where gpg
\* is usable, in the plaintext file otherwise.
InitLines ==
    /\ config \in Configs
    /\ \E lines \in LineSeqs :
        /\ codec = [stage |-> "found", lines |-> lines, m |-> ValidEntries(lines),
                    text |-> FileText(lines), out |-> EmptyDict]
        /\ files =
            IF GpgUsable(config)
            THEN WriteFile(EmptyDir, profile_keys_path(WorkName),
                           [ct |-> FileText(lines), pw |-> Passphrase(config)])
            ELSE WriteFile(EmptyDir, profile_keys_plain_path(WorkName),
                           FileText(lines))
    /\ last = Call("import", NoName, NoName, NoValue, <<>>, 1)
    /\ nreq = 0
    /\ nstarts = 0
    /\ tmpfiles = {}
    /\ workers = NoWorkers

\* storage.load_profile_keys("w")
CallLoadKeys ==
    /\ codec.stage = "found"
    /\ codec' = [codec EXCEPT !.stage = "loaded",
                              !.out = load_profile_keys(files, config, WorkName)]
    /\ UNCHANGED <<files, config, last, nreq, nstarts, tmpfiles, workers>>

NextLines == CallLoadKeys

SpecLines == InitLines /\ [][NextLines]_vars

\* ------------------------------------------------------------------- claims
NameSet(fs, name) == SeqToSet(read_profile(fs, name))
Listed(fs) == SeqToSet(list_profiles(fs))
\* File `path` is the same in both directories: absent in both, or present in
\* both with the same contents.
SameFile(fs1, fs2, path) ==
    /\ (path \in DOMAIN fs1) = (path \in DOMAIN fs2)
    /\ (path \in DOMAIN fs1 => fs1[path] = fs2[path])

\* C1: once ensure_default_profile has run at start-up, "default" is in
\* list_profiles() in every state reached by create_profile, delete_profile,
\* add_key, update_key and delete_key requests.
C1_DefaultAlwaysListed == DefaultName \in Listed(files)

\* C1 witness: a delete_profile("default") request was served, after another
\* profile was created, and "default" is still listed.
C1_Witness ==
    /\ last.op = "delete_profile"
    /\ last.profile = DefaultName
    /\ WorkName \in Listed(files)
    /\ DefaultName \in Listed(files)

\* C2 (as claimed): whenever add_key(p, K, v) reports success, load_keys(p)
\* then maps K to v and read_name_list(p) contains K.
C2_AddKeyThenLoaded ==
    (last.op = "add_key" /\ last.status = 200) =>
        LET keys == load_profile_keys(files, config, last.profile)
        IN  /\ last.key \in DOMAIN keys
            /\ keys[last.key] = last.value
            /\ last.key \in NameSet(files, last.profile)

\* C3 (as claimed): whenever delete_key(p, K) reports success, load_keys(p)
\* then does not contain K and read_name_list(p) does not contain K.
C3_DeleteKeyThenGone ==
    (last.op = "delete_key" /\ last.status = 200) =>
        /\ last.key \notin DOMAIN load_profile_keys(files, config, last.profile)
        /\ last.key \notin NameSet(files, last.profile)

\* C4: delete_profile("default") always answers 400 and leaves the name list,
\* the encrypted contents and the plaintext contents of "default" as they were.
C4_DefaultDeleteForbidden ==
    [][(last'.op = "delete_profile" /\ last'.profile = DefaultName
            /\ nreq' = nreq + 1)
        => /\ last'.status = 400
           /\ \A path \in Artifacts(DefaultName) : SameFile(files, files', path)
      ]_vars

\* C4 witness: delete_profile("default") was answered 400 while "default" has
\* a non-empty name list and stored keys.
C4_Witness ==
    /\ last.op = "delete_profile"
    /\ last.profile = DefaultName
    /\ last.status = 400
    /\ read_profile(files, DefaultName) # <<>>
    /\ DOMAIN load_profile_keys(files, config, DefaultName) # {}

\* C5: for a key K that is not in load_keys(p), delete_key(p, K) answers 404 and
\* changes nothing: the artifacts of p and load_keys(p) are as before.
C5_DeleteMissingKey ==
    [][(/\ last'.op = "delete_key"
        /\ nreq' = nreq + 1
        /\ last'.key \notin DOMAIN load_profile_keys(files, config, last'.profile))
        => /\ last'.status = 404
           /\ \A path \in Artifacts(last'.profile) : SameFile(files, files', path)
           /\ load_profile_keys(files', config', last'.profile)
                = load_profile_keys(files, config, last'.profile)
      ]_vars

\* C5 witness: delete_key of a missing key was answered 404 on a profile that
\* holds another key.
C5_Witness ==
    /\ last.op = "delete_key"
    /\ last.status = 404
    /\ DOMAIN load_profile_keys(files, config, last.profile) # {}
    /\ last.key \notin DOMAIN load_profile_keys(files, config, last.profile)

\* C6 (as claimed): with encryption unavailable, save_keys(p, M) returns true,
\* leaves the encrypted artifact as it was, writes the plaintext file, and
\* load_keys(p) then returns exactly M.
C6_PlainRoundTrip ==
    [][(last'.op = "save_keys" /\ nreq' = nreq + 1 /\ ~GpgUsable(config))
        => /\ last'.status = 1
           /\ SameFile(files, files', profile_keys_path(last'.profile))
           /\ profile_keys_plain_path(last'.profile) \in DOMAIN files'
           /\ load_profile_keys(files', config', last'.profile) = last'.keys
      ]_vars

\* C7 (as claimed): after every completed add_key, update_key or delete_key
\* request, every key of load_keys(p) is in read_name_list(p), for every p.
C7_LoadedKeysListed ==
    (last.op \in {"add_key", "update_key", "delete_key"} /\ last.status = 200) =>
        \A p \in ProfileNames :
            DOMAIN load_profile_keys(files, config, p) \subseteq NameSet(files, p)

\* C8 (as claimed): whenever the encrypted artifact of p exists and decrypts,
\* load_keys(p) is the decoding of the decrypted text, whatever the plaintext
\* file holds.
C8_EncryptedAuthoritative ==
    \A p \in ProfileNames :
        (/\ profile_keys_path(p) \in DOMAIN files
         /\ decrypt_gpg_data(files, config, profile_keys_path(p)).some)
        => load_profile_keys(files, config, p)
             = DecodeContents(decrypt_gpg_data(files, config,
                                               profile_keys_path(p)).str)

\* C9 (as claimed): decoding the text produced by encoding a mapping m yields
\* exactly m.
C9_CodecRoundTrip == codec.stage = "decoded" => codec.out = codec.m

\* C10: ensure_default_profile leaves exactly one "default" in list_profiles();
\* when "default" was already listed no file changes (its name list is not
\* replaced by the empty list), and a second call changes nothing.
C10_EnsureDefaultIdempotent ==
    [][(last'.op = "ensure_default" /\ nreq' = nreq + 1)
        => /\ Cardinality({i \in 1..Len(list_profiles(files')) :
                              list_profiles(files')[i] = DefaultName}) = 1
           /\ (DefaultName \in Listed(files) => files' = files)
           /\ (DefaultName \notin Listed(files) =>
                 /\ read_profile(files', DefaultName) = <<>>
                 /\ \A path \in DOMAIN files : SameFile(files, files', path))
           /\ ensure_default_profile(files') = files'
      ]_vars

\* C10 witness: ensure_default_profile was called while "default" had a
\* non-empty name list, which is still there.
C10_Witness ==
    /\ last.op = "ensure_default"
    /\ read_profile(files, DefaultName) # <<>>

\* C11 (as claimed): write_name_list(p, keys) followed by read_name_list(p)
\* returns the distinct elements of keys in ascending order, whatever the file
\* held before; read_name_list of a profile without a name-list file returns
\* the empty sequence.
C11_NameListNormalized ==
    [][/\ (last'.op = "write_profile" /\ nreq' = nreq + 1)
            => read_profile(files', last'.profile)
                 = SortedSeq(SeqToSet(last'.keys))
       /\ \A p \in ProfileNames :
            profile_path(p) \notin DOMAIN files' => read_profile(files', p) = <<>>
      ]_vars

\* C12: for a contents text made of valid lines, lines whose value fails to
\* decode, blank lines and lines starting with #, load_keys returns exactly the
\* entries of the valid lines: a failing line neither ends the parse nor
\* removes the entry of another line.
C12_PerLineTolerant ==
    codec.stage = "loaded" => codec.out = ValidEntries(codec.lines)

\* C12 witness: a text with a failing line and a comment before a valid line
\* was loaded, and the entry of the valid line is there.
C12_Witness ==
    /\ codec.stage = "loaded"
    /\ Len(codec.lines) = 3
    /\ codec.lines[1].kind = "failing"
    /\ codec.lines[2].kind = "comment"
    /\ codec.lines[3].kind = "valid"
    /\ codec.lines[3].key \in DOMAIN codec.out
    /\ codec.out[codec.lines[3].key] = codec.lines[3].value

\* C13: create_profile(name) answers 409 exactly when name is in
\* list_profiles(), and then no file changes; otherwise it answers 200, writes
\* an empty name list for name and no other file (no contents file), and name
\* is in list_profiles() afterwards.
C13_CreateProfile ==
    [][(last'.op = "create_profile" /\ nreq' = nreq + 1 /\ last'.status # 400)
        => LET name == last'.profile
           IN  /\ (last'.status = 409) = (name \in Listed(files))
               /\ last'.status = 409 => files' = files
               /\ last'.status # 409 =>
                    /\ last'.status = 200
                    /\ profile_path(name) \in DOMAIN files'
                    /\ files'[profile_path(name)] = <<>>
                    /\ read_profile(files', name) = <<>>
                    /\ \A path \in (DOMAIN files \cup DOMAIN files')
                                      \ {profile_path(name)} :
                           SameFile(files, files', path)
                    /\ name \in Listed(files')
      ]_vars

\* C13 witness: create_profile of a listed profile with a non-empty name list
\* was answered 409, and the name list is still non-empty.
C13_Witness ==
    /\ last.op = "create_profile"
    /\ last.status = 409
    /\ read_profile(files, last.profile) # <<>>

C19_UpdateKeyFrame ==
    [][(last'.op = "update_key" /\ nreq' = nreq + 1)
        => LET p == last'.profile
               saved == save_profile_keys(files, config, p,
                            Put(load_profile_keys(files, config, p),
                                last'.key, last'.value))
           IN  /\ last'.status \in {200, 400, 500}
               /\ last'.status # 400 =>
                    /\ (last'.status = 200) = saved.ok
                    /\ SameFile(files', saved.fs, profile_keys_path(p))
                    /\ SameFile(files', saved.fs, profile_keys_plain_path(p))
               /\ \A q \in ProfileNames :
                    /\ SameFile(files, files', profile_path(q))
                    /\ read_profile(files', q) = read_profile(files, q)
               /\ list_profiles(files') = list_profiles(files)
      ]_vars

\* C19 witness: update_key of a key that was not stored was answered 200: the
\* key is loaded with its value and is not on the name list.
C19_Witness ==
    /\ last.op = "update_key"
    /\ last.status = 200
    /\ last.key \in DOMAIN load_profile_keys(files, config, last.profile)
    /\ load_profile_keys(files, config, last.profile)[last.key] = last.value
    /\ last.key \notin NameSet(files, last.profile)

\* C17: a save_keys call that returns true writes exactly one contents
\* artifact, the encrypted artifact when encrypt succeeded and the plaintext
\* file otherwise; the other contents artifact, the name list and every other
\* file are as they were.
C17_SaveWritesOneArtifact ==
    [][(last'.op = "save_keys" /\ nreq' = nreq + 1 /\ last'.status = 1)
        => LET p == last'.profile
               data == EncodeContents(last'.keys)
               enc == encrypt_gpg_data_env(files, config, data,
                          profile_keys_path(p), last'.fault, nreq')
               written == IF enc.ok THEN profile_keys_path(p)
                          ELSE profile_keys_plain_path(p)
           IN  /\ written \in DOMAIN files'
               /\ files'[written] =
                    IF enc.ok THEN [ct |-> data, pw |-> Passphrase(config)]
                    ELSE data
               /\ \A path \in (DOMAIN files \cup DOMAIN files') \ {written} :
                    SameFile(files, files', path)
      ]_vars

\* C17 witness: with gpg usable, a save fell back to the plaintext file because
\* gpg exited non-zero, next to an encrypted artifact saved earlier that holds
\* something else.
C17_Witness ==
    /\ last.op = "save_keys"
    /\ last.status = 1
    /\ GpgUsable(config)
    /\ last.fault.gpg = "exit"
    /\ profile_keys_path(last.profile) \in DOMAIN files
    /\ profile_keys_plain_path(last.profile) \in DOMAIN files
    /\ files[profile_keys_path(last.profile)].ct
         # files[profile_keys_plain_path(last.profile)]

\* C18 (as claimed): on every exit path of encrypt and decrypt, every transient
\* file the call created has been removed when the call returns, and the
\* outcome is returned (true/false, the text or None), never raised.
C18_TempFilesRemoved ==
    [][(last'.op \in {"encrypt", "decrypt"} /\ nreq' = nreq + 1)
        => /\ tmpfiles' = tmpfiles
           /\ last'.status \in {0, 1}
      ]_vars

\* C20: whenever save_keys reports failure inside add_key or delete_key, the
\* request is answered 500 and the name list of the profile is as it was
\* before the request.
C20_NameListAfterSave ==
    [][(/\ last'.op \in {"add_key", "delete_key"}
        /\ nreq' = nreq + 1
        /\ LET p == last'.profile
               loaded == load_profile_keys(files, config, p)
           IN  IF last'.op = "add_key"
               THEN ~save_profile_keys_env(files, config, p,
                        Put(loaded, last'.key, last'.value),
                        last'.fault, nreq').ok
               ELSE /\ last'.key \in DOMAIN loaded
                    /\ ~save_profile_keys_env(files, config, p,
                           Del(loaded, last'.key), last'.fault, nreq').ok)
        => /\ last'.status = 500
           /\ SameFile(files, files', profile_path(last'.profile))
           /\ read_profile(files', last'.profile)
                = read_profile(files, last'.profile)
      ]_vars

\* C20 witness: a delete_key whose save failed was answered 500 and the key is
\* still on the name list.
C20_Witness ==
    /\ last.op = "delete_key"
    /\ last.status = 500
    /\ last.key \in NameSet(files, last.profile)

\* C15: when two add_key requests for distinct keys on the same profile have
\* both loaded before either saved, both are answered 200 and the contents
\* then hold exactly the mapping saved by the request whose save ran last: the
\* key of the other request is not in it with the value that request gave.
C15_LostUpdate ==
    \A x \in DOMAIN workers, y \in DOMAIN workers :
        (/\ workers[x].pc = "done" /\ workers[y].pc = "done"
         /\ workers[x].profile = workers[y].profile
         /\ workers[x].key # workers[y].key
         /\ workers[x].loadedAfter = 0 /\ workers[y].loadedAfter = 0
         /\ workers[x].saveNo < workers[y].saveNo)
        => /\ workers[x].status = 200
           /\ workers[y].status = 200
           /\ load_profile_keys(files, config, workers[x].profile)
                = workers[y].keys
           /\ LET keys == load_profile_keys(files, config, workers[x].profile)
               IN  ~(/\ workers[x].key \in DOMAIN keys
                     /\ keys[workers[x].key] = workers[x].value)

\* C15 witness: two add_key requests for "A" and "B" on "w" interleaved their
\* loads and saves, both were answered 200, and the key saved first is gone.
C15_Witness ==
    /\ \A w \in DOMAIN workers :
          /\ workers[w].pc = "done"
          /\ workers[w].status = 200
          /\ workers[w].profile = WorkName
          /\ workers[w].loadedAfter = 0
    /\ DOMAIN workers = WorkerIds
    /\ workers[1].key = <<65>>
    /\ workers[2].key = <<66>>
    /\ workers[1].saveNo = 1
    /\ workers[2].saveNo = 2
    /\ <<65>> \notin DOMAIN load_profile_keys(files, config, WorkName)
    /\ <<66>> \in DOMAIN load_profile_keys(files, config, WorkName)

\* C16: a storage step of a request on profile p changes no artifact of
\* another profile; and when two requests on different profiles have both
\* finished, whatever the interleaving of their load, save and name-list steps,
\* each is answered as when served alone and the contents and the name list of
\* its profile are what it produces when served alone.
C16_DisjointProfiles ==
    [][/\ \A w \in DOMAIN workers :
            workers'[w] # workers[w] =>
                \A path \in (DOMAIN files \cup DOMAIN files')
                               \ Artifacts(workers[w].profile) :
                    SameFile(files, files', path)
       /\ (/\ \A w \in DOMAIN workers' : workers'[w].pc = "done"
           /\ \A x \in DOMAIN workers', y \in DOMAIN workers' :
                 x # y => workers'[x].profile # workers'[y].profile)
          => \A w \in DOMAIN workers' :
                /\ workers'[w].status = workers'[w].alone.status
                /\ \A path \in Artifacts(workers'[w].profile) :
                      SameFile(files', workers'[w].alone.fs, path)
                /\ load_profile_keys(files', config', workers'[w].profile)
                     = load_profile_keys(workers'[w].alone.fs, config',
                                         workers'[w].profile)
                /\ read_profile(files', workers'[w].profile)
                     = read_profile(workers'[w].alone.fs, workers'[w].profile)
      ]_vars

\* C16 witness: add_key requests on "default" and on "w" have both finished
\* after the second one loaded and saved between the load and the save of the
\* first, and each profile holds its key.
C16_Witness ==
    /\ DOMAIN workers = WorkerIds
    /\ \A w \in DOMAIN workers : workers[w].pc = "done" /\ workers[w].status = 200
    /\ workers[1].profile = DefaultName
    /\ workers[2].profile = WorkName
    /\ workers[2].loadedAfter = 0
    /\ workers[2].saveNo = 1
    /\ workers[1].saveNo = 2
    /\ workers[1].key \in DOMAIN load_profile_keys(files, config, DefaultName)
    /\ workers[2].key \in DOMAIN load_profile_keys(files, config, WorkName)
    /\ workers[1].key \in NameSet(files, DefaultName)
    /\ workers[2].key \in NameSet(files, WorkName)

\* C21 (as claimed): whenever create_profile(n) reports success, load_keys(n)
\* right after it returns the empty mapping.
C21_NewProfileEmpty ==
    (last.op = "create_profile" /\ last.status = 200) =>
        load_profile_keys(files, config, last.profile) = EmptyDict

\* C22 (as claimed): from an empty store with encryption unavailable, after any
\* sequence of requests served one at a time, every name in read_name_list(p)
\* is a key of load_keys(p), for every profile p.
C22_ListedKeysStored ==
    \A p \in ProfileNames :
        NameSet(files, p) \subseteq DOMAIN load_profile_keys(files, config, p)
====
